---- MODULE Spec2Model ----
(***************************************************************************)
(* A model of extract_text.py: the format resolver, the three extractors,  *)
(* the output router (handle_output) and the command-line driver (main).   *)
(*                                                                         *)
(* Paths and format names are sequences of one-character strings, so that  *)
(* os.path.splitext, basename, dirname, join, str.lower and str.endswith   *)
(* are computed character by character as posixpath computes them.         *)
(* Extracted text is a TLA+ string; "\n".join is string concatenation.     *)
(* An Optional value is a sequence of length 0 (None) or 1.                *)
(***************************************************************************)
EXTENDS Integers, Sequences, FiniteSets, TLC

\* --------------------------------------------------------------- bounds
\* Longest list of input paths on a command line.
MaxFiles == 2
\* Most slides of a presentation and most shapes of a slide (pptx loop).
MaxSlides == 2
MaxShapes == 2

\* ------------------------------------------------------ Optional values
None == << >>
Some(x) == << x >>
IsNone(o) == o = << >>
Val(o) == o[1]

\* ------------------------------------------------------------- strings
\* Chars("a.pdf") is written out: TLC cannot index a string.
UpperCase == << "A", "B", "C", "D", "E", "F", "G", "H", "I", "J", "K", "L", "M",
                "N", "O", "P", "Q", "R", "S", "T", "U", "V", "W", "X", "Y", "Z" >>
LowerCase == << "a", "b", "c", "d", "e", "f", "g", "h", "i", "j", "k", "l", "m",
                "n", "o", "p", "q", "r", "s", "t", "u", "v", "w", "x", "y", "z" >>

\* One character of str.lower().
LowerChar(c) ==
    IF \E i \in 1..Len(UpperCase) : UpperCase[i] = c
    THEN LowerCase[CHOOSE i \in 1..Len(UpperCase) : UpperCase[i] = c]
    ELSE c

\* str.lower()
Lower(s) == [i \in 1..Len(s) |-> LowerChar(s[i])]

\* str.rfind(c) + 1: the 1-based index of the last c in s, 0 when there is none.
RFind(s, c) ==
    IF \E i \in 1..Len(s) : s[i] = c
    THEN CHOOSE i \in 1..Len(s) : s[i] = c /\ \A j \in (i+1)..Len(s) : s[j] # c
    ELSE 0

\* os.sep on the platform modelled (posix).
Sep == "/"

\* str.endswith(os.sep)
EndsWithSep(s) == Len(s) > 0 /\ s[Len(s)] = Sep

\* str.rstrip("/")
RECURSIVE RStripSep(_)
RStripSep(s) == IF EndsWithSep(s) THEN RStripSep(SubSeq(s, 1, Len(s) - 1)) ELSE s

\* posixpath.basename
Basename(p) == SubSeq(p, RFind(p, Sep) + 1, Len(p))

\* posixpath.dirname
Dirname(p) ==
    LET head == SubSeq(p, 1, RFind(p, Sep))
    IN  IF head # << >> /\ \E i \in 1..Len(head) : head[i] # Sep
        THEN RStripSep(head)
        ELSE head

\* posixpath.splitext (genericpath._splitext): the extension starts at the last
\* dot of the last component, unless only dots precede it in that component.
SplitExt(p) ==
    LET sepIndex == RFind(p, Sep)
        dotIndex == RFind(p, ".")
    IN  IF dotIndex > sepIndex
           /\ \E k \in (sepIndex + 1)..(dotIndex - 1) : p[k] # "."
        THEN << SubSeq(p, 1, dotIndex - 1), SubSeq(p, dotIndex, Len(p)) >>
        ELSE << p, << >> >>

\* posixpath.join(a, b)
Join(a, b) ==
    IF Len(b) > 0 /\ b[1] = Sep THEN b
    ELSE IF a = << >> \/ EndsWithSep(a) THEN a \o b
    ELSE a \o << Sep >> \o b

DotTxt == << ".", "t", "x", "t" >>

\* The generated name with the input's extension left in: a.pdf.txt.
GeneratedName_keepsExtension(dir, input) == Join(dir, Basename(input) \o DotTxt)

\* f"{name_without_ext}.txt" joined to a directory: lines 228-230 and 161-163.
GeneratedName(dir, input) == Join(dir, SplitExt(Basename(input))[1] \o DotTxt)

\* ---------------------------------------------------------- file system
\* The file system below the working directory: a function from the component
\* list of a relative path to a node. The working directory itself (the empty
\* component list) is a directory that always exists.

\* str.find(os.sep) + 1
Find(s, c) ==
    IF \E i \in 1..Len(s) : s[i] = c
    THEN CHOOSE i \in 1..Len(s) : s[i] = c /\ \A j \in 1..(i-1) : s[j] # c
    ELSE 0

\* The components the kernel walks for a relative path: empty ones are dropped.
RECURSIVE Components(_)
Components(p) ==
    IF p = << >> THEN << >>
    ELSE LET i == Find(p, Sep)
         IN  IF i = 0 THEN << p >>
             ELSE (IF i = 1 THEN << >> ELSE << SubSeq(p, 1, i - 1) >>)
                  \o Components(SubSeq(p, i + 1, Len(p)))

\* What a document file holds, as the parsing libraries see it: the text of a
\* PDF and its count of lines holding the page marker, the paragraphs of a
\* DOCX, the slides of a PPTX (each a list of shapes, a shape being None when
\* it has no text attribute, else Some(text)). fmt "text" is a plain text file,
\* as the program itself writes. corrupt: the library raises on it.
Data(fmt, text, pages, paragraphs, slides, corrupt) ==
    [fmt |-> fmt, text |-> text, pages |-> pages, paragraphs |-> paragraphs,
     slides |-> slides, corrupt |-> corrupt]
NoData == Data("none", "", 0, << >>, << >>, FALSE)
PlainText(t) == Data("text", t, 0, << >>, << >>, FALSE)

DirNode == [kind |-> "dir", data |-> NoData]
FileNode(d) == [kind |-> "file", data |-> d]

Prefixes(comps) == { SubSeq(comps, 1, k) : k \in 1..Len(comps) }

\* os.path.exists: a trailing separator makes the kernel require a directory.
Exists(f, p) ==
    LET comps == Components(p)
    IN  /\ comps # << >>
        /\ comps \in DOMAIN f
        /\ (EndsWithSep(p) => f[comps].kind = "dir")

\* os.path.isdir
IsDir(f, p) ==
    LET comps == Components(p)
    IN  comps # << >> /\ comps \in DOMAIN f /\ f[comps].kind = "dir"

\* os.makedirs(p, exist_ok=True). It raises when p is empty
\* (FileNotFoundError), when p or one of its ancestors is a regular file
\* (FileExistsError, NotADirectoryError), and when a directory has to be
\* created where writing is denied (PermissionError); it creates nothing then.
Makedirs(f, deny, p) ==
    LET comps == Components(p)
        missing == { q \in Prefixes(comps) : q \notin DOMAIN f }
    IN  IF comps = << >> THEN [ok |-> FALSE, err |-> "FileNotFoundError", fs |-> f]
        ELSE IF \E q \in Prefixes(comps) : q \in DOMAIN f /\ f[q].kind = "file"
        THEN [ok |-> FALSE, err |-> "FileExistsError", fs |-> f]
        ELSE IF missing = {} THEN [ok |-> TRUE, err |-> "", fs |-> f]
        ELSE IF deny THEN [ok |-> FALSE, err |-> "PermissionError", fs |-> f]
        ELSE [ok |-> TRUE, err |-> "",
              fs |-> [q \in DOMAIN f \cup missing |->
                         IF q \in missing THEN DirNode ELSE f[q]]]

\* open(p, mode) then f.write: the file p comes to hold content. Every failure
\* is an OSError: p empty or its parent not a directory, p a directory,
\* writing denied.
OpenAndWrite(f, deny, p, content) ==
    LET comps == Components(p)
        parent == SubSeq(comps, 1, Len(comps) - 1)
    IN  IF comps = << >> THEN [ok |-> FALSE, err |-> "FileNotFoundError", fs |-> f]
        ELSE IF EndsWithSep(p) \/ (comps \in DOMAIN f /\ f[comps].kind = "dir")
        THEN [ok |-> FALSE, err |-> "IsADirectoryError", fs |-> f]
        ELSE IF parent # << >> /\ (parent \notin DOMAIN f \/ f[parent].kind # "dir")
        THEN [ok |-> FALSE, err |-> "FileNotFoundError", fs |-> f]
        ELSE IF deny THEN [ok |-> FALSE, err |-> "PermissionError", fs |-> f]
        ELSE [ok |-> TRUE, err |-> "",
              fs |-> [q \in DOMAIN f \cup {comps} |->
                         IF q = comps THEN FileNode(PlainText(content)) ELSE f[q]]]

\* Mode 'a' in place of 'w': the text is added to what the file holds.
OpenWrite_append(f, deny, p, t) ==
    LET comps == Components(p)
    IN  OpenAndWrite(f, deny, p,
                     IF comps \in DOMAIN f /\ f[comps].kind = "file"
                     THEN f[comps].data.text \o t ELSE t)

\* with open(p, 'w', encoding='utf-8') as f: f.write(t): p is created or
\* truncated and holds t.
OpenWrite(f, deny, p, t) == OpenAndWrite(f, deny, p, t)

\* ------------------------------------------------------------- console
\* One print() call: what is printed (kind), the path, text or exception it
\* names, and the counts a verbose line reports.
Msg(kind, path, text, n, m) == [kind |-> kind, path |-> path, text |-> text, n |-> n, m |-> m]

\* ---------------------------------------------------------- extractors
\* "\n".join(parts)
RECURSIVE JoinLines(_)
JoinLines(parts) ==
    IF parts = << >> THEN ""
    ELSE IF Len(parts) = 1 THEN parts[1]
    ELSE parts[1] \o "\n" \o JoinLines(Tail(parts))

\* What an extractor hands back to extract_text: the text it returns, or the
\* sys.exit(1) of a missing library's stub passing through it, and what it printed.
Returned(t, msgs) == [exit |-> FALSE, text |-> Some(t), msgs |-> msgs]
ReturnedNone(msgs) == [exit |-> FALSE, text |-> None, msgs |-> msgs]
Exited(msgs) == [exit |-> TRUE, text |-> None, msgs |-> msgs]

\* Lines 49-51, 65-67, 94-96: what the library raised is caught, a line is
\* printed and the extractor returns "".
Caught_returnsNone(file_path, label) ==
    ReturnedNone(<< Msg("extract_error", file_path, label, 0, 0) >>)
Caught(file_path, label) ==
    Returned("", << Msg("extract_error", file_path, label, 0, 0) >>)

\* The parsing library raises on this path: it is a directory, or not a
\* document of the library's format, or a damaged one.
LibraryRaises(f, path, fmt) ==
    LET node == f[Components(path)]
    IN  node.kind # "file" \/ node.data.fmt # fmt \/ node.data.corrupt

\* extract_text_from_pdf. The stub's SystemExit is no Exception: line 49 does
\* not catch it.
extract_text_from_pdf(f, installed, file_path, verbose) ==
    IF "pdf" \notin installed
    THEN Exited(<< Msg("install", file_path, "pdfminer.six", 0, 0) >>)
    ELSE IF LibraryRaises(f, file_path, "pdf")
    THEN Caught(file_path, "PDF")
    ELSE LET d == f[Components(file_path)].data
         IN  Returned(d.text,
                      IF verbose THEN << Msg("processed", file_path, "PDF", d.pages, 0) >>
                      ELSE << >>)

\* extract_text_from_docx
extract_text_from_docx(f, installed, file_path, verbose) ==
    IF "docx" \notin installed
    THEN Exited(<< Msg("install", file_path, "python-docx", 0, 0) >>)
    ELSE IF LibraryRaises(f, file_path, "docx")
    THEN Caught(file_path, "DOCX")
    ELSE LET paragraphs == f[Components(file_path)].data.paragraphs
         IN  Returned(JoinLines(paragraphs),
                      IF verbose
                      THEN << Msg("processed", file_path, "DOCX", Len(paragraphs), 0) >>
                      ELSE << >>)

\* hasattr(shape, "text") alone.
HasText_attributeOnly(shape) == ~IsNone(shape)

\* hasattr(shape, "text") and shape.text
HasText(shape) == ~IsNone(shape) /\ Val(shape) # ""

\* Lines 80-84: the inner loop over one slide's shapes, from the accumulator
\* slide_text.
RECURSIVE SlideText(_, _)
SlideText(shapes, slide_text) ==
    IF shapes = << >> THEN slide_text
    ELSE SlideText(Tail(shapes),
                   IF HasText(Head(shapes)) THEN Append(slide_text, Val(Head(shapes)))
                   ELSE slide_text)

\* f"--- Slide {i} ---"
SlideHeader(i) == "--- Slide " \o ToString(i) \o " ---"

\* Lines 79-88: the loop over the slides from index i, with the accumulators
\* text_parts and text_shape_count.
RECURSIVE SlideLoop(_, _, _, _)
SlideLoop(slides, i, text_parts, text_shape_count) ==
    IF i > Len(slides)
    THEN [text_parts |-> text_parts, text_shape_count |-> text_shape_count]
    ELSE LET slide_text == SlideText(slides[i], << >>)
         IN  SlideLoop(slides, i + 1,
                       IF slide_text # << >>
                       THEN (Append(text_parts, SlideHeader(i)) \o slide_text)
                       ELSE text_parts,
                       text_shape_count + Len(slide_text))

\* Lines 74-93 of extract_text_from_pptx, for an opened presentation.
PptxText(slides) ==
    LET r == SlideLoop(slides, 1, << >>, 0)
    IN  [text |-> JoinLines(r.text_parts), slide_count |-> Len(slides),
         text_shape_count |-> r.text_shape_count]

\* extract_text_from_pptx
extract_text_from_pptx(f, installed, file_path, verbose) ==
    IF "pptx" \notin installed
    THEN Exited(<< Msg("install", file_path, "python-pptx", 0, 0) >>)
    ELSE IF LibraryRaises(f, file_path, "pptx")
    THEN Caught(file_path, "PPTX")
    ELSE LET r == PptxText(f[Components(file_path)].data.slides)
         IN  Returned(r.text,
                      IF verbose
                      THEN << Msg("processed", file_path, "PPTX", r.slide_count,
                                  r.text_shape_count) >>
                      ELSE << >>)

\* ------------------------------------------------------ format resolver
PDF == << "p", "d", "f" >>
DOCX == << "d", "o", "c", "x" >>
PPTX == << "p", "p", "t", "x" >>
Dot(tag) == << "." >> \o tag

\* Lines 101-107: an explicit format, lowered, must be one of the three tags.
FormatFromFlag(specified_format) ==
    LET lowered == Lower(specified_format)
    IN  IF lowered \in {PDF, DOCX, PPTX}
        THEN [result |-> Some(lowered), msgs |-> << >>]
        ELSE [result |-> None, msgs |-> << Msg("invalid_format", lowered, "", 0, 0) >>]

\* Lines 109-120: the extension, lowered, must be that of one of the three tags.
FormatFromExtension(file_path) ==
    LET extension == Lower(SplitExt(file_path)[2])
    IN  IF extension = Dot(PDF) THEN [result |-> Some(PDF), msgs |-> << >>]
        ELSE IF extension = Dot(DOCX) THEN [result |-> Some(DOCX), msgs |-> << >>]
        ELSE IF extension = Dot(PPTX) THEN [result |-> Some(PPTX), msgs |-> << >>]
        ELSE [result |-> None,
              msgs |-> << Msg("unsupported_format", file_path, "", 0, 0) >>]

\* determine_file_format with the extension looked at first.
determine_file_format_extensionFirst(file_path, specified_format) ==
    IF ~IsNone(FormatFromExtension(file_path).result)
    THEN FormatFromExtension(file_path)
    ELSE IF ~IsNone(specified_format) /\ Val(specified_format) # << >>
    THEN FormatFromFlag(Val(specified_format))
    ELSE FormatFromExtension(file_path)

\* determine_file_format: the format, or None with the error line printed.
\* specified_format is None, or Some(string); an empty string is falsy (line 101).
determine_file_format(file_path, specified_format) ==
    IF ~IsNone(specified_format) /\ Val(specified_format) # << >>
    THEN FormatFromFlag(Val(specified_format))
    ELSE FormatFromExtension(file_path)

\* Lines 133-142 of extract_text: the extractor a resolved format selects;
\* "none" when resolution failed (line 131).
ExtractorFor(file_format) ==
    IF IsNone(file_format) THEN "none"
    ELSE IF Val(file_format) = PDF THEN "pdf"
    ELSE IF Val(file_format) = DOCX THEN "docx"
    ELSE IF Val(file_format) = PPTX THEN "pptx"
    ELSE "none"

\* extract_text: None for a missing file or an unresolved format, else what the
\* format's extractor hands back.
extract_text(f, installed, file_path, format_type, verbose) ==
    IF ~Exists(f, file_path)
    THEN ReturnedNone(<< Msg("not_found", file_path, "", 0, 0) >>)
    ELSE LET r == determine_file_format(file_path, format_type)
             e == ExtractorFor(r.result)
             x == IF e = "pdf"
                  THEN extract_text_from_pdf(f, installed, file_path, verbose)
                  ELSE IF e = "docx"
                  THEN extract_text_from_docx(f, installed, file_path, verbose)
                  ELSE IF e = "pptx"
                  THEN extract_text_from_pptx(f, installed, file_path, verbose)
                  ELSE ReturnedNone(<< >>)
         IN  [x EXCEPT !.msgs = r.msgs \o @]

\* -------------------------------------------------------- output router
\* What handle_output did: the file system it leaves, what it printed, the
\* files it wrote, and the exception it let through (None: it returned).
Routed(f, msgs, wrote, raised) == [fs |-> f, msgs |-> msgs, wrote |-> wrote, raised |-> raised]

\* Lines 172-178: the write of output_file, every failure caught and printed.
WriteOutput(f, deny, output_file, t) ==
    LET w == OpenWrite(f, deny, output_file, t)
    IN  IF w.ok
        THEN Routed(w.fs, << Msg("written", output_file, "", 0, 0) >>,
                    << [path |-> Components(output_file),
                        text |-> w.fs[Components(output_file)].data.text] >>, None)
        ELSE Routed(f, << Msg("write_error", output_file, w.err, 0, 0) >>, << >>, None)

\* Lines 150-178 of handle_output, for a non-empty text. os.makedirs (lines
\* 158, 168) stands outside the try of line 173: what it raises leaves the
\* function.
RouteText(f, deny, t, output_path, input_path) ==
    IF IsNone(output_path) \/ Val(output_path) = << >>
    THEN Routed(f, << Msg("text", << >>, t, 0, 0) >>, << >>, None)
    ELSE LET op == Val(output_path)
         IN  IF IsDir(f, op) \/ (~Exists(f, op) /\ EndsWithSep(op))
             THEN LET mk == Makedirs(f, deny, op)
                  IN  IF mk.ok
                      THEN WriteOutput(mk.fs, deny, GeneratedName(op, input_path), t)
                      ELSE Routed(f, << >>, << >>, Some(mk.err))
             ELSE LET output_dir == Dirname(op)
                  IN  IF output_dir # << >> /\ ~Exists(f, output_dir)
                      THEN LET mk == Makedirs(f, deny, output_dir)
                           IN  IF mk.ok THEN WriteOutput(mk.fs, deny, op, t)
                               ELSE Routed(f, << >>, << >>, Some(mk.err))
                      ELSE WriteOutput(f, deny, op, t)

\* handle_output without the test of line 147.
handle_output_noEmptyTest(f, deny, t, output_path, input_path) ==
    RouteText(f, deny, t, output_path, input_path)

\* handle_output(text, output_path, input_path): nothing at all for an empty text.
handle_output(f, deny, t, output_path, input_path) ==
    IF t = "" THEN Routed(f, << >>, << >>, None)
    ELSE RouteText(f, deny, t, output_path, input_path)

\* ---------------------------------------------------------------- state
VARIABLES
    argv,           \* the parsed command line: file_paths, format, output, verbose
    installed,      \* the parsing libraries whose import succeeded (lines 8-33)
    denyWrite,      \* the working tree refuses new files and directories
    fs,             \* the file system
    run,            \* 1: the first run of the command line, 2: the same again
    pc,             \* position in main
    output_is_dir,  \* main's output_is_dir
    idx,            \* position of the for loop in args.file_paths
    text,           \* main's text for the current file (None: skipped)
    output_path,    \* main's output_path for the current file
    console,        \* what this run has printed, in order
    writes,         \* the files this run has written, in order
    extracted,      \* what extract_text returned for each file of this run
    caught,         \* the current file's extractor ended in its except clause
    exitCode,       \* the exit status once the process has ended
    uncaught,       \* the exception that ended the process with a traceback
    prev,           \* what the first run printed and wrote
    request,        \* a direct call determine_file_format(path, format)
    resolved,       \* its dispatch: the extractor chosen, or that none runs
    deck,           \* an opened presentation: its slides
    pptx            \* what lines 74-93 make of it

driverVars == << argv, installed, denyWrite, fs, run, pc, output_is_dir, idx, text,
                 output_path, console, writes, extracted, caught, exitCode, uncaught,
                 prev >>
resolverVars == << request, resolved >>
pptxVars == << deck, pptx >>
vars == << driverVars, resolverVars, pptxVars >>

\* ------------------------------------------------- the modelled inputs
A_PDF == << "a", ".", "p", "d", "f" >>
A_DOCX == << "a", ".", "d", "o", "c", "x" >>
B_PPTX == << "b", ".", "p", "p", "t", "x" >>
E_PDF == << "e", ".", "p", "d", "f" >>
R_TXT == << "r", ".", "t", "x", "t" >>
M_PDF == << "m", ".", "p", "d", "f" >>
OUT == << "o", "u", "t" >>
OUT_SEP == << "o", "u", "t", "/" >>
SUB_O_TXT == << "s", "u", "b", "/", "o", ".", "t", "x", "t" >>
OUT_A_TXT == << "o", "u", "t", "/", "a", ".", "t", "x", "t" >>

\* The documents present before the first run. m.pdf is absent; e.pdf is
\* damaged; r.txt is a PDF under another extension.
InputFiles ==
    [q \in { Components(A_PDF), Components(A_DOCX), Components(B_PPTX),
             Components(E_PDF), Components(R_TXT) } |->
        IF q = Components(A_PDF)
        THEN FileNode(Data("pdf", "P", 1, << >>, << >>, FALSE))
        ELSE IF q = Components(A_DOCX)
        THEN FileNode(Data("docx", "", 0, << "Title", "", "Body" >>, << >>, FALSE))
        ELSE IF q = Components(B_PPTX)
        THEN FileNode(Data("pptx", "", 0, << >>,
                           << << Some("Hello") >>, << >>, << Some("A"), None, Some("B") >> >>,
                           FALSE))
        ELSE IF q = Components(E_PDF)
        THEN FileNode(Data("pdf", "", 0, << >>, << >>, TRUE))
        ELSE FileNode(Data("pdf", "R", 2, << >>, << >>, FALSE))]

\* f with the node n at path p.
With(f, p, n) == [q \in DOMAIN f \cup {Components(p)} |-> IF q = Components(p) THEN n ELSE f[q]]

\* What stands at out before the first run: nothing, a regular file, a
\* directory, a directory holding a directory a.txt.
OutVariants ==
    { InputFiles,
      With(InputFiles, OUT, FileNode(PlainText("old"))),
      With(InputFiles, OUT, DirNode),
      With(With(InputFiles, OUT, DirNode), OUT_A_TXT, DirNode) }

\* -o and the file system it meets. -o is absent, a bare name, a name ending
\* in the separator, a file in a directory to create, or one of the inputs.
OutputCases ==
    { << None, InputFiles >>, << Some(SUB_O_TXT), InputFiles >>,
      << Some(A_PDF), InputFiles >> }
    \cup { << Some(OUT), f >> : f \in OutVariants }
    \cup { << Some(OUT_SEP), f >> : f \in OutVariants }

InputPaths == { A_PDF, A_DOCX, B_PPTX, E_PDF, R_TXT, M_PDF }
FilePathLists == UNION { [1..n -> InputPaths] : n \in 1..MaxFiles }
\* -f: absent, accepted by argparse's choices, or refused by them.
FormatArgs == { None, Some(PDF), Some(DOCX), Some(<< "P", "D", "F" >>) }
Libraries == { "pdf", "docx", "pptx" }
\* Every import succeeded, or only that of python-docx did.
InstalledSets == { Libraries, {"docx"} }

\* ----------------------------------------------------------- the driver
NoRun == [console |-> << >>, writes |-> << >>, exitCode |-> None]

DriverInit ==
    /\ \E c \in OutputCases :
          /\ argv \in [file_paths : FilePathLists, format : FormatArgs,
                       output : {c[1]}, verbose : BOOLEAN]
          /\ fs = c[2]
    /\ installed \in InstalledSets
    /\ denyWrite \in BOOLEAN
    /\ run = 1
    /\ pc = "parse"
    /\ output_is_dir = FALSE
    /\ idx = 1
    /\ text = None
    /\ output_path = None
    /\ console = << >>
    /\ writes = << >>
    /\ extracted = << >>
    /\ caught = FALSE
    /\ exitCode = None
    /\ uncaught = None
    /\ prev = NoRun

\* bool(args.output)
HasOutput == ~IsNone(argv.output) /\ Val(argv.output) # << >>

\* Lines 204-212: parse_args refuses a -f value outside choices with status 2;
\* otherwise output_is_dir is computed once.
ParseArgs ==
    /\ pc = "parse"
    /\ IF ~IsNone(argv.format) /\ Val(argv.format) \notin {PDF, DOCX, PPTX}
       THEN /\ console' = Append(console, Msg("usage_error", Val(argv.format), "", 0, 0))
            /\ exitCode' = Some(2)
            /\ pc' = "done"
            /\ UNCHANGED << output_is_dir, idx >>
       ELSE /\ output_is_dir' =
                   (HasOutput /\ (\/ IsDir(fs, Val(argv.output))
                                  \/ EndsWithSep(Val(argv.output))
                                  \/ Len(argv.file_paths) # 1))
            /\ idx' = 1
            /\ pc' = "extract"
            /\ UNCHANGED << console, exitCode >>
    /\ UNCHANGED << argv, installed, denyWrite, fs, run, text, output_path, writes,
                    extracted, caught, uncaught, prev >>

\* The for loop of line 215 moves on: to the next path, or out of main,
\* which ends the process with status 0.
AtLastFile == idx = Len(argv.file_paths)
NextPc == IF AtLastFile THEN "done" ELSE "extract"
NextIdx == IF AtLastFile THEN idx ELSE idx + 1
NextExit == IF AtLastFile THEN Some(0) ELSE exitCode

\* Lines 215-221: one file's extract_text call.
ExtractText ==
    /\ pc = "extract"
    /\ LET file_path == argv.file_paths[idx]
           r == extract_text(fs, installed, file_path, argv.format, argv.verbose)
           shown == (IF argv.verbose
                     THEN << Msg("processing", file_path, "", 0, 0) >> ELSE << >>)
                    \o r.msgs
       IN  /\ console' = console \o shown
           /\ caught' = (\E k \in 1..Len(r.msgs) : r.msgs[k].kind = "extract_error")
           /\ IF r.exit
              THEN /\ exitCode' = Some(1)
                   /\ pc' = "done"
                   /\ UNCHANGED << text, extracted, idx >>
              ELSE /\ text' = r.text
                   /\ extracted' = Append(extracted, r.text)
                   /\ IF IsNone(r.text)
                      THEN pc' = NextPc /\ idx' = NextIdx /\ exitCode' = NextExit
                      ELSE pc' = "route" /\ UNCHANGED << idx, exitCode >>
    /\ UNCHANGED << argv, installed, denyWrite, fs, run, output_is_dir, output_path,
                    writes, uncaught, prev >>

\* Lines 222-232: this file's output_path. os.makedirs (line 227) stands in no
\* try: what it raises ends the process with a traceback and status 1.
ComputeOutputPath ==
    /\ pc = "route"
    /\ LET file_path == argv.file_paths[idx]
           mk == Makedirs(fs, denyWrite, Val(argv.output))
       IN  IF HasOutput /\ output_is_dir
           THEN IF mk.ok
                THEN /\ fs' = mk.fs
                     /\ output_path' = Some(GeneratedName(Val(argv.output), file_path))
                     /\ pc' = "handle"
                     /\ UNCHANGED << uncaught, exitCode >>
                ELSE /\ uncaught' = Some(mk.err)
                     /\ exitCode' = Some(1)
                     /\ pc' = "done"
                     /\ UNCHANGED << fs, output_path >>
           ELSE /\ output_path' = (IF HasOutput THEN argv.output ELSE None)
                /\ pc' = "handle"
                /\ UNCHANGED << fs, uncaught, exitCode >>
    /\ UNCHANGED << argv, installed, denyWrite, run, output_is_dir, idx, text, console,
                    writes, extracted, caught, prev >>

\* Line 234: handle_output for this file, then the loop moves on.
HandleOutput ==
    /\ pc = "handle"
    /\ LET r == handle_output(fs, denyWrite, Val(text), output_path, argv.file_paths[idx])
       IN  /\ fs' = r.fs
           /\ console' = console \o r.msgs
           /\ writes' = writes \o r.wrote
           /\ IF IsNone(r.raised)
              THEN pc' = NextPc /\ idx' = NextIdx /\ exitCode' = NextExit
                   /\ UNCHANGED uncaught
              ELSE pc' = "done" /\ exitCode' = Some(1) /\ uncaught' = r.raised
                   /\ UNCHANGED idx
    /\ UNCHANGED << argv, installed, denyWrite, run, output_is_dir, text, output_path,
                    extracted, caught, prev >>

\* The same command line is run again on the file system the first run left.
Rerun ==
    /\ pc = "done"
    /\ run = 1
    /\ run' = 2
    /\ prev' = [console |-> console, writes |-> writes, exitCode |-> exitCode]
    /\ pc' = "parse"
    /\ output_is_dir' = FALSE
    /\ idx' = 1
    /\ text' = None
    /\ output_path' = None
    /\ console' = << >>
    /\ writes' = << >>
    /\ extracted' = << >>
    /\ caught' = FALSE
    /\ exitCode' = None
    /\ uncaught' = None
    /\ UNCHANGED << argv, installed, denyWrite, fs >>

\* The variables of the two function-level specifications, at rest.
ResolverIdle == request = << >> /\ resolved = << >>
PptxIdle == deck = << >> /\ pptx = << >>

\* No command line is running.
DriverIdle ==
    /\ argv = [file_paths |-> << >>, format |-> None, output |-> None, verbose |-> FALSE]
    /\ installed = Libraries
    /\ denyWrite = FALSE
    /\ fs = InputFiles
    /\ run = 1
    /\ pc = "idle"
    /\ output_is_dir = FALSE
    /\ idx = 1
    /\ text = None
    /\ output_path = None
    /\ console = << >>
    /\ writes = << >>
    /\ extracted = << >>
    /\ caught = FALSE
    /\ exitCode = None
    /\ uncaught = None
    /\ prev = NoRun

Init == DriverInit /\ ResolverIdle /\ PptxIdle

Next ==
    \/ ParseArgs /\ UNCHANGED << resolverVars, pptxVars >>
    \/ ExtractText /\ UNCHANGED << resolverVars, pptxVars >>
    \/ ComputeOutputPath /\ UNCHANGED << resolverVars, pptxVars >>
    \/ HandleOutput /\ UNCHANGED << resolverVars, pptxVars >>
    \/ Rerun /\ UNCHANGED << resolverVars, pptxVars >>

\* The command-line program, run twice.
Spec == Init /\ [][Next]_vars

\* ------------------------------------------- the format resolver alone
\* determine_file_format called directly, as an importer of the module may:
\* the format is any string, not only one argparse lets through.
ResolveStems == { << "r" >>, << "x", ".", "y" >>, << "d", "/", "n" >>,
                  << "d", ".", "p", "d", "f", "/", "n" >>, << >>, << "d", "/" >>,
                  << "." >> }
ResolveSuffixes == { << >>, << ".", "p", "d", "f" >>, << ".", "P", "D", "F" >>,
                     << ".", "P", "d", "f" >>, << ".", "d", "o", "c", "x" >>,
                     << ".", "D", "o", "c", "X" >>, << ".", "p", "p", "t", "x" >>,
                     << ".", "P", "P", "T", "X" >>, << ".", "t", "x", "t" >>,
                     << ".", "p", "d", "f", "x" >>, << ".", "d", "o", "c" >>,
                     << ".", "p", "d", "f", "." >>, << "p", "d", "f" >> }
ResolvePaths == { stem \o suffix : stem \in ResolveStems, suffix \in ResolveSuffixes }
ResolveFormats == { None, Some(<< >>), Some(PDF), Some(<< "P", "D", "F" >>),
                    Some(<< "P", "d", "F" >>), Some(DOCX), Some(<< "D", "O", "C", "X" >>),
                    Some(PPTX), Some(<< "p", "P", "t", "X" >>),
                    Some(<< "t", "x", "t" >>), Some(<< "p", "d" >>),
                    Some(<< ".", "p", "d", "f" >>), Some(<< "p", "d", "f", " " >>) }

ResolveInit ==
    /\ request \in [path : ResolvePaths, format : ResolveFormats]
    /\ resolved = None

\* Lines 129-138: the format is resolved and selects the extractor to run.
Resolve ==
    /\ resolved = None
    /\ LET r == determine_file_format(request.path, request.format)
       IN  resolved' = Some([result |-> r.result, extractor |-> ExtractorFor(r.result),
                             msgs |-> r.msgs])
    /\ UNCHANGED request

InitResolve == DriverIdle /\ ResolveInit /\ PptxIdle
NextResolve == Resolve /\ UNCHANGED << driverVars, pptxVars >>
SpecResolve == InitResolve /\ [][NextResolve]_vars

\* ---------------------------------------------- the PPTX extractor alone
\* What a shape may be: without a text attribute, with an empty text, with text.
ShapeValues == { None, Some(""), Some("A"), Some("B") }
SlideValues == UNION { [1..n -> ShapeValues] : n \in 0..MaxShapes }
Decks == UNION { [1..n -> SlideValues] : n \in 0..MaxSlides }

PptxInit ==
    /\ deck \in Decks
    /\ pptx = None

\* Lines 74-93 run on the opened presentation.
ExtractPptx ==
    /\ pptx = None
    /\ pptx' = Some(PptxText(deck))
    /\ UNCHANGED deck

InitPptx == DriverIdle /\ ResolverIdle /\ PptxInit
NextPptx == ExtractPptx /\ UNCHANGED << driverVars, resolverVars >>
SpecPptx == InitPptx /\ [][NextPptx]_vars

\* ================================================================ claims
Last(q) == q[Len(q)]
Printed(kind) == \E i \in 1..Len(console) : console[i].kind = kind
\* parse_args let the command line through.
ArgsAccepted == ~Printed("usage_error")
\* The stub of a missing parsing library was called.
StubCalled == Printed("install")
\* The inputs reported as not found, by position.
ReportedMissing(i) ==
    \E k \in 1..Len(console) :
        console[k].kind = "not_found" /\ console[k].path = argv.file_paths[i]

\* C1: in every batch a missing input is reported and skipped (extract_text
\* returns None for it: no format is resolved, no extractor runs, nothing is
\* routed), every other input is still processed in order, and the process
\* ends with exit code 0. Read with the command line accepted and no parsing
\* library missing.
C1_MissingInputBatch ==
    (pc = "done" /\ ArgsAccepted /\ ~StubCalled
        /\ \E i \in 1..Len(argv.file_paths) : ReportedMissing(i))
    => /\ exitCode = Some(0)
       /\ Len(extracted) = Len(argv.file_paths)
       /\ \A i \in 1..Len(extracted) : ReportedMissing(i) => IsNone(extracted[i])

\* C4: no failure in producing an input's output is raised out of the
\* per-file loop: the process never ends on an uncaught exception.
C4_OutputFailuresCaught == IsNone(uncaught)

\* C5: a run ends with a non-zero status exactly when the stub of a missing
\* parsing library was called, and then the install line is the last thing
\* printed: nothing is routed for that file and no later file is processed.
C5_ExitStatus ==
    (pc = "done" /\ ArgsAccepted)
    => IF StubCalled
       THEN /\ exitCode = Some(1)
            /\ Last(console).kind = "install"
            /\ Len(extracted) < Len(argv.file_paths)
       ELSE exitCode = Some(0)

\* C6: handle_output called with an empty text does nothing, whatever the
\* output target: nothing is printed, no directory is created, no file is
\* written or truncated.
C6_EmptyTextNoOp ==
    [][(pc = "handle" /\ text = Some(""))
        => /\ fs' = fs
           /\ console' = console
           /\ writes' = writes
           /\ uncaught' = uncaught]_vars

\* handle_output has returned from a call with an empty text and a file target.
C6_Witness ==
    /\ pc = "done" /\ exitCode = Some(0)
    /\ text = Some("")
    /\ ~IsNone(output_path)
    /\ Len(extracted) = Len(argv.file_paths)
    /\ Last(extracted) = Some("")

\* --------------------------------------------------------------- C3
NonEmpty(t) == ~IsNone(t) /\ Val(t) # ""
\* The path p is a regular file holding exactly t.
HoldsText(f, p, t) ==
    LET comps == Components(p)
    IN  comps \in DOMAIN f /\ f[comps] = FileNode(PlainText(t))
\* <the -o directory>/<base name of input i without extension>.txt
StemOf(name) ==
    LET dot == RFind(name, ".")
    IN  IF \E k \in 1..(dot - 1) : name[k] # "." THEN SubSeq(name, 1, dot - 1) ELSE name
OutputFileOf(i) ==
    RStripSep(Val(argv.output)) \o << Sep >> \o StemOf(Basename(argv.file_paths[i])) \o DotTxt
SameStem(i, j) == OutputFileOf(i) = OutputFileOf(j)

\* C3 as stated: after a run whose output target is directory-shaped (here:
\* one that ended with exit code 0), every input whose extraction produced
\* non-empty text has its text, exactly, in the file
\* <directory>/<base name without extension>.txt.
C3_Original ==
    (pc = "done" /\ output_is_dir /\ exitCode = Some(0))
    => \A i \in 1..Len(extracted) :
          NonEmpty(extracted[i]) => HoldsText(fs, OutputFileOf(i), Val(extracted[i]))

\* C3 amended: the same, for a run that ends with exit code 0 and reports no
\* write failure, and for an input that no later input shares its base name
\* without extension with and whose output file name is not that of an
\* existing directory.
C3_DirectoryOutputs ==
    (pc = "done" /\ output_is_dir /\ exitCode = Some(0) /\ ~Printed("write_error"))
    => \A i \in 1..Len(extracted) :
          (/\ NonEmpty(extracted[i])
           /\ \A j \in (i + 1)..Len(argv.file_paths) : ~SameStem(i, j)
           /\ ~IsDir(fs, OutputFileOf(i)))
          => HoldsText(fs, OutputFileOf(i), Val(extracted[i]))

\* Two inputs of different base names have been written into the directory
\* the run created.
C3_Witness ==
    /\ pc = "done" /\ run = 1 /\ exitCode = Some(0) /\ output_is_dir
    /\ argv.file_paths = << A_PDF, B_PPTX >>
    /\ argv.output = Some(OUT)
    /\ HoldsText(fs, OUT_A_TXT, "P")
    /\ HoldsText(fs, << "o", "u", "t", "/", "b", ".", "t", "x", "t" >>,
                 "--- Slide 1 ---\nHello\n--- Slide 3 ---\nA\nB")
    /\ Len(writes) = 2

\* --------------------------------------------------------------- C7
\* The library of the format resolved for the current file is installed and
\* raises on it.
LibraryRaisesNow ==
    LET file_path == argv.file_paths[idx]
        e == ExtractorFor(determine_file_format(file_path, argv.format).result)
    IN  /\ Exists(fs, file_path)
        /\ e \in installed
        /\ LibraryRaises(fs, file_path, e)
\* The extraction of the current file ended in the except clause.
ExtractionFailed == caught

\* C7 as stated: after an extraction that failed, the router still writes an
\* (empty) output file when there is a file or directory target.
C7_Original ==
    [][(pc = "handle" /\ ExtractionFailed /\ ~IsNone(output_path))
        => Len(writes') = Len(writes) + 1]_vars

\* C7 amended: what the library raises is caught, a line is printed and the
\* extractor returns an empty text; the router then does nothing for that
\* file: it prints nothing and writes no file.
C7_FailedExtractionSkipped ==
    [][/\ (pc = "extract" /\ LibraryRaisesNow)
          => /\ text' = Some("")
             /\ caught'
             /\ Last(console').kind = "extract_error"
             /\ pc' = "route"
             /\ UNCHANGED << exitCode, uncaught, fs >>
       /\ (pc = "handle" /\ ExtractionFailed)
          => /\ text = Some("")
             /\ UNCHANGED << fs, console, writes >>]_vars

\* A run with a file target has ended on a file whose extraction failed, and
\* nothing was written.
C7_Witness ==
    /\ pc = "done" /\ exitCode = Some(0)
    /\ ExtractionFailed
    /\ text = Some("")
    /\ ~IsNone(output_path)
    /\ writes = << >>

\* -------------------------------------------------------------- C10
\* The step belongs to an input with nothing to output.
NothingToOutput ==
    \/ pc = "extract" /\ pc' # "done" /\ IsNone(text')
    \/ pc = "extract" /\ pc' = "done" /\ exitCode' = Some(0)
    \/ pc \in {"route", "handle"} /\ text = Some("")

\* C10 as stated: an input that is skipped or whose text is empty leaves the
\* file system unchanged, the -o directory of a directory-shaped run included.
C10_Original == [][NothingToOutput => fs' = fs]_vars

\* C10 amended: a skipped input leaves the file system unchanged; for an
\* input whose text is empty no file is created, truncated or written and the
\* router creates nothing, but in a directory-shaped run the driver creates
\* the -o directory, with its missing parents, when it is absent.
C10_NothingToOutput ==
    [][/\ (pc = "extract" => fs' = fs)
       /\ (pc = "handle" /\ text = Some("") => fs' = fs)
       /\ (pc = "route" /\ text = Some("")
           => /\ \A q \in DOMAIN fs : q \in DOMAIN fs' /\ fs'[q] = fs[q]
              /\ \A q \in DOMAIN fs' \ DOMAIN fs :
                    /\ fs'[q] = DirNode
                    /\ output_is_dir
                    /\ q \in Prefixes(Components(Val(argv.output))))]_vars

\* A directory-shaped run over an input with an empty text has ended: the
\* directory is there and nothing was written.
C10_Witness ==
    /\ pc = "done" /\ run = 1 /\ exitCode = Some(0)
    /\ argv.file_paths = << E_PDF >>
    /\ argv.output = Some(OUT_SEP)
    /\ IsDir(fs, OUT)
    /\ DOMAIN fs = DOMAIN InputFiles \cup { Components(OUT) }
    /\ writes = << >>

\* --------------------------------------------------------------- C9
IsTextMsg(m) == m.kind = "text"
\* The extracted text a run printed.
PrintedText(c) == SelectSeq(c, IsTextMsg)
InputNodes == { Components(argv.file_paths[i]) : i \in 1..Len(argv.file_paths) }

\* C9 as stated: the second run of a command line prints the same text as the
\* first, writes the same files and leaves them with the same content.
C9_Original ==
    (run = 2 /\ pc = "done")
    => /\ PrintedText(console) = PrintedText(prev.console)
       /\ writes = prev.writes

\* C9 amended: the same, provided the first run wrote to none of the input
\* paths.
C9_Idempotent ==
    (/\ run = 2 /\ pc = "done"
     /\ \A k \in 1..Len(prev.writes) : prev.writes[k].path \notin InputNodes)
    => /\ PrintedText(console) = PrintedText(prev.console)
       /\ writes = prev.writes
       /\ exitCode = prev.exitCode

\* The second run has overwritten the file the first run created.
C9_Witness ==
    /\ run = 2 /\ pc = "done" /\ exitCode = Some(0)
    /\ argv.output = Some(OUT)
    /\ Len(argv.file_paths) = 1
    /\ writes # << >>
    /\ writes = prev.writes
    /\ \A k \in 1..Len(prev.writes) : prev.writes[k].path \notin InputNodes

\* --------------------------------------------------------------- C2
Tags == { PDF, DOCX, PPTX }
\* s is tag in some letter case.
IsTagInAnyCase(s, tag) ==
    /\ Len(s) = Len(tag)
    /\ \A i \in 1..Len(tag) :
          \/ s[i] = tag[i]
          \/ \E k \in 1..Len(LowerCase) : LowerCase[k] = tag[i] /\ UpperCase[k] = s[i]
\* The last component of path p is a name followed by ".<tag>" in some letter
\* case, the name holding something other than dots.
HasExtension(p, tag) ==
    LET n == Len(p) - Len(tag)
    IN  /\ n >= 2
        /\ p[n] = "."
        /\ IsTagInAnyCase(SubSeq(p, n + 1, Len(p)), tag)
        /\ \E k \in 1..(n - 1) :
              /\ p[k] \notin { ".", Sep }
              /\ \A j \in k..(n - 1) : p[j] # Sep
\* An explicit format is given: it is not None and not the empty string, which
\* line 101 takes for no format.
FormatGiven(r) == ~IsNone(r.format) /\ Val(r.format) # << >>
\* The one format the claim selects for a request, or None.
ClaimedFormat(r) ==
    IF FormatGiven(r)
    THEN IF \E tag \in Tags : IsTagInAnyCase(Val(r.format), tag)
         THEN Some(CHOOSE tag \in Tags : IsTagInAnyCase(Val(r.format), tag))
         ELSE None
    ELSE IF \E tag \in Tags : HasExtension(r.path, tag)
         THEN Some(CHOOSE tag \in Tags : HasExtension(r.path, tag))
         ELSE None
TagName(tag) == IF tag = PDF THEN "pdf" ELSE IF tag = DOCX THEN "docx" ELSE "pptx"

\* C2: resolution selects exactly one format per request: an explicit format
\* that is pdf, docx or pptx in any letter case gives that tag whatever the
\* extension; with no explicit format the tag of the path's extension,
\* compared without regard to case; in every other case resolution fails and
\* no extractor runs.
C2_FormatResolution ==
    ~IsNone(resolved)
    => /\ Val(resolved).result = ClaimedFormat(request)
       /\ Val(resolved).extractor =
             (IF IsNone(ClaimedFormat(request)) THEN "none"
              ELSE TagName(Val(ClaimedFormat(request))))

\* r.txt with the format PDF has resolved to pdf.
C2_Witness ==
    /\ request = [path |-> R_TXT, format |-> Some(<< "P", "D", "F" >>)]
    /\ ~IsNone(resolved)
    /\ Val(resolved).result = Some(PDF)
    /\ Val(resolved).extractor = "pdf"

\* --------------------------------------------------------------- C8
\* A shape with a non-empty text.
TextBearing(shape) == Len(shape) = 1 /\ shape[1] # ""
\* The texts of the text-bearing shapes of slide n, in shape order.
RECURSIVE ShapeTexts(_, _)
ShapeTexts(shapes, k) ==
    IF k = 0 THEN << >>
    ELSE ShapeTexts(shapes, k - 1)
         \o (IF TextBearing(shapes[k]) THEN << shapes[k][1] >> ELSE << >>)
\* What slide n emits: nothing, or its separator line and its texts.
Emitted(slides, n) ==
    LET texts == ShapeTexts(slides[n], Len(slides[n]))
    IN  IF texts = << >> THEN << >>
        ELSE << "--- Slide " \o ToString(n) \o " ---" >> \o texts
RECURSIVE EmittedUpTo(_, _)
EmittedUpTo(slides, n) ==
    IF n = 0 THEN << >> ELSE EmittedUpTo(slides, n - 1) \o Emitted(slides, n)
RECURSIVE NewlineJoined(_, _)
NewlineJoined(lines, n) ==
    IF n = 0 THEN ""
    ELSE IF n = 1 THEN lines[1]
    ELSE NewlineJoined(lines, n - 1) \o "\n" \o lines[n]
TextShapes(slides) ==
    UNION { { << i, j >> : j \in { k \in 1..Len(slides[i]) : TextBearing(slides[i][k]) } } :
            i \in 1..Len(slides) }

\* C8: the text of a presentation is the newline-joined lines got by visiting
\* the slides in order with their 1-based index N: a slide with a
\* text-bearing shape emits '--- Slide N ---' then its non-empty shape texts
\* in shape order, a slide without one emits nothing but keeps its index; the
\* reported count of text elements is the number of shape texts emitted.
C8_PptxText ==
    ~IsNone(pptx)
    => LET lines == EmittedUpTo(deck, Len(deck))
       IN  /\ Val(pptx).text = NewlineJoined(lines, Len(lines))
           /\ Val(pptx).text_shape_count = Cardinality(TextShapes(deck))
           /\ Val(pptx).slide_count = Len(deck)

\* A first slide without text, a second with two texts: the separator names
\* slide 2.
C8_Witness ==
    /\ deck = << << None, Some("") >>, << Some("B"), Some("A") >> >>
    /\ ~IsNone(pptx)
    /\ Val(pptx).text = "--- Slide 2 ---\nB\nA"
    /\ Val(pptx).text_shape_count = 2

====
